---- MODULE Spec2Model ----
(***************************************************************************)
(* A model of phone_directory.py: the Record validators, the JSON-backed   *)
(* PhoneDirectory (load_records, save_records, add_record, edit_record,    *)
(* search_records, display_records) and the life of one process around it. *)
(*                                                                         *)
(* A Python str is a sequence of one-character strings.  A Record is a     *)
(* function from the six field names to such sequences.  Records are       *)
(* values here: every position of self.records holds an object of its own, *)
(* as after load_records (line 78) and after the CLI's add (line 234),     *)
(* which construct a fresh Record for every position.                      *)
(***************************************************************************)
EXTENDS Integers, Sequences, FiniteSets, TLC

VARIABLES
    running,   \* a PhoneDirectory object exists (the process is alive)
    records,   \* self.records
    file,      \* the content of self.file_path
    edits,     \* number of edit_record calls that wrote the file so far
    last       \* the last operation: its arguments, the state before it, its outcome

vars == <<running, records, file, edits, last>>

\* Bounds of the model.
MaxRecs == 2
MaxEdits == 1

(***************************************************************************)
(* Strings                                                                 *)
(***************************************************************************)
LowerLetters ==
    {"a","b","c","d","e","f","g","h","i","j","k","l","m",
     "n","o","p","q","r","s","t","u","v","w","x","y","z"}
UpperLetters ==
    {"A","B","C","D","E","F","G","H","I","J","K","L","M",
     "N","O","P","Q","R","S","T","U","V","W","X","Y","Z"}
Digits == {"0","1","2","3","4","5","6","7","8","9"}
Whitespace == {" ", "\n", "\t"}

UpperSeq == <<"A","B","C","D","E","F","G","H","I","J","K","L","M",
              "N","O","P","Q","R","S","T","U","V","W","X","Y","Z">>
LowerSeq == <<"a","b","c","d","e","f","g","h","i","j","k","l","m",
              "n","o","p","q","r","s","t","u","v","w","x","y","z">>

\* str.lower() on one character.
LowerChar(c) ==
    IF c \in UpperLetters
    THEN LowerSeq[CHOOSE i \in 1..Len(UpperSeq) : UpperSeq[i] = c]
    ELSE c

\* str.lower()
Lower(s) == [i \in 1..Len(s) |-> LowerChar(s[i])]

\* `a in b` on strings
IsSubstring(a, b) ==
    \E i \in 0..(Len(b) - Len(a)) : SubSeq(b, i + 1, i + Len(a)) = a

\* `"=" in query`
Positions(s, c) == {i \in 1..Len(s) : s[i] = c}

\* str.split("="): the parts between the separators, in order.
RECURSIVE Split(_, _)
Split(s, c) ==
    IF Positions(s, c) = {}
    THEN <<s>>
    ELSE LET i == CHOOSE k \in Positions(s, c) : \A j \in Positions(s, c) : k <= j
         IN  <<SubSeq(s, 1, i - 1)>> \o Split(SubSeq(s, i + 1, Len(s)), c)

(***************************************************************************)
(* Record and its validators                                               *)
(***************************************************************************)
\* The dataclass fields in declaration order: list(dataclasses.asdict(record).keys())
Fields == <<"last_name", "first_name", "middle_name", "organization",
            "work_phone", "personal_phone">>
FieldSet == {Fields[i] : i \in 1..Len(Fields)}
NameFields == {"last_name", "first_name", "middle_name", "organization"}
PhoneFields == {"personal_phone", "work_phone"}

\* [a-zA-Z\s]: the Cyrillic ranges of the class are outside the model's alphabet.
NameChar(c) == c \in LowerLetters \cup UpperLetters \cup Whitespace

\* re.match(r'^[a-zA-Z..\s]+(?:-[a-zA-Z..\s]+)?$', value).  `$` also matches before a
\* final newline, which the class \s consumes anyway.
validate_string_fields(value) ==
    LET hy == Positions(value, "-")
    IN  /\ Len(value) > 0
        /\ \A i \in 1..Len(value) : NameChar(value[i]) \/ value[i] = "-"
        /\ Cardinality(hy) <= 1
        /\ \A i \in hy : 1 < i /\ i < Len(value)

\* The positions reached after an optional character of class C.
Opt(ps, s, C) == ps \cup {p + 1 : p \in {q \in ps : q < Len(s) /\ s[q + 1] \in C}}
\* The positions reached after exactly one character of class C.
One(ps, s, C) == {p + 1 : p \in {q \in ps : q < Len(s) /\ s[q + 1] \in C}}
Three(ps, s, C) == One(One(One(ps, s, C), s, C), s, C)
PhoneSeparators == {"-", ".", " ", "\n", "\t"}

\* The end positions of the prefix matches of
\*   [\+]?[(]?[0-9]{3}[)]?[-\s\.]?[0-9]{3}[-\s\.]?[0-9]{4,6}
PhoneEnds(s) ==
    LET p1 == Opt({0}, s, {"+"})
        p2 == Opt(p1, s, {"("})
        p3 == Three(p2, s, Digits)
        p4 == Opt(p3, s, {")"})
        p5 == Opt(p4, s, PhoneSeparators)
        p6 == Three(p5, s, Digits)
        p7 == Opt(p6, s, PhoneSeparators)
        p8 == One(Three(p7, s, Digits), s, Digits)
    IN  Opt(Opt(p8, s, Digits), s, Digits)

\* A match that is anchored at the start only: the pattern without its `$`.
validate_phone_StartOnly(value) == PhoneEnds(value) # {}

\* re.match(r'^...[0-9]{4,6}$', value): `$` matches at the end of the string and
\* just before a newline that ends it.
validate_phone(value) ==
    \E e \in PhoneEnds(value) :
        \/ e = Len(value)
        \/ e = Len(value) - 1 /\ value[Len(value)] = "\n"

\* The validator pydantic runs for a field.
FieldValid(f, value) ==
    IF f \in PhoneFields THEN validate_phone(value) ELSE validate_string_fields(value)

\* Record(**data) succeeds: exactly the six keys, every validator passes.
RecordValid(data) ==
    /\ DOMAIN data = FieldSet
    /\ \A f \in FieldSet : FieldValid(f, data[f])

(***************************************************************************)
(* The file and load_records / save_records                                *)
(***************************************************************************)
\* The file's content: absent, text that is no JSON, or a JSON value.  A JSON value
\* is an array of values, an object (a function from keys to strings) or a number.
Missing == [kind |-> "missing"]
NotJson == [kind |-> "text"]
JsonFile(v) == [kind |-> "json", value |-> v]
JArray(items) == [t |-> "array", items |-> items]
JObject(m) == [t |-> "object", m |-> m]
JNumber == [t |-> "number"]

\* dataclasses.asdict(record)
asdict(record) == [f \in FieldSet |-> record[f]]

\* records_data of save_records, as json.dump writes it
Dumped(recs) == JArray([i \in 1..Len(recs) |-> JObject(asdict(recs[i]))])

\* save_records: the file is overwritten with the dump of self.records.
save_records(recs) == JsonFile(Dumped(recs))

\* Record(**data) for one element of the parsed array: a TypeError when data is no
\* mapping, a ValidationError when pydantic rejects it, else the Record.
Construct(data) ==
    IF data.t # "object" THEN [status |-> "TypeError"]
    ELSE IF ~RecordValid(data.m) THEN [status |-> "ValidationError"]
    ELSE [status |-> "ok", record |-> [f \in FieldSet |-> data.m[f]]]

\* [Record(**data) for data in records_data]: the first element that raises ends
\* the comprehension with its exception.
RECURSIVE Comprehension(_, _, _)
Comprehension(items, i, acc) ==
    IF i > Len(items) THEN [status |-> "ok", ret |-> acc]
    ELSE LET c == Construct(items[i])
         IN  IF c.status # "ok" THEN [status |-> c.status, ret |-> <<>>]
             ELSE Comprehension(items, i + 1, Append(acc, c.record))

\* load_records: FileNotFoundError, JSONDecodeError and ValidationError are caught
\* and give []; a TypeError (iterating a number, ** of a non-mapping) is not caught.
load_records(f) ==
    IF f.kind = "missing" THEN [status |-> "ok", ret |-> <<>>]
    ELSE IF f.kind = "text" THEN [status |-> "ok", ret |-> <<>>]
    ELSE IF f.value.t # "array" THEN [status |-> "TypeError", ret |-> <<>>]
    ELSE LET c == Comprehension(f.value.items, 1, <<>>)
         IN  IF c.status = "ValidationError" THEN [status |-> "ok", ret |-> <<>>]
             ELSE c

(***************************************************************************)
(* Python indexing                                                         *)
(***************************************************************************)
\* A slice bound clipped as list slicing clips it.
PyBound(i, n) ==
    IF i < 0 THEN (IF i + n < 0 THEN 0 ELSE i + n)
    ELSE IF i > n THEN n ELSE i

\* s[a:b]
PySlice(s, a, b) ==
    LET lo == PyBound(a, Len(s))
        hi == PyBound(b, Len(s))
    IN  IF lo < hi THEN SubSeq(s, lo + 1, hi) ELSE <<>>

\* The 1-based position s[i] reads (i is Python's 0-based, possibly negative,
\* index), or 0 when s[i] raises IndexError.
PyIndex(n, i) ==
    IF 0 <= i /\ i < n THEN i + 1
    ELSE IF i < 0 /\ -n <= i THEN n + i + 1
    ELSE 0

(***************************************************************************)
(* Attribute access by name (hasattr / getattr on a Record)                *)
(***************************************************************************)
\* The field names as text.
AttrText ==
    [last_name      |-> <<"l","a","s","t","_","n","a","m","e">>,
     first_name     |-> <<"f","i","r","s","t","_","n","a","m","e">>,
     middle_name    |-> <<"m","i","d","d","l","e","_","n","a","m","e">>,
     organization   |-> <<"o","r","g","a","n","i","z","a","t","i","o","n">>,
     work_phone     |-> <<"w","o","r","k","_","p","h","o","n","e">>,
     personal_phone |-> <<"p","e","r","s","o","n","a","l","_","p","h","o","n","e">>]

\* Other attributes every Record has: its validator methods and the class's
\* __module__, a str.
TextValidatePhone == <<"v","a","l","i","d","a","t","e","_","p","h","o","n","e">>
TextValidateString ==
    <<"v","a","l","i","d","a","t","e","_","s","t","r","i","n","g","_","f","i","e","l","d","s">>
TextModule == <<"_","_","m","o","d","u","l","e","_","_">>
ModuleName == <<"p","h","o","n","e","_","d","i","r","e","c","t","o","r","y">>

\* hasattr(record, name) and what getattr(record, name) gives: a str or another object.
GetAttr(record, name) ==
    IF \E f \in FieldSet : AttrText[f] = name
    THEN [has |-> TRUE, str |-> TRUE,
          val |-> record[CHOOSE f \in FieldSet : AttrText[f] = name]]
    ELSE IF name \in {TextValidatePhone, TextValidateString}
    THEN [has |-> TRUE, str |-> FALSE, val |-> <<>>]
    ELSE IF name = TextModule
    THEN [has |-> TRUE, str |-> TRUE, val |-> ModuleName]
    ELSE [has |-> FALSE, str |-> FALSE, val |-> <<>>]

(***************************************************************************)
(* search_records                                                          *)
(***************************************************************************)
\* A comparison that forgets to lower-case both sides.
FieldEquals_CaseSensitive(attr, value) == attr = value

\* getattr(record, field).lower() == value.lower(), for an attribute that is a str
FieldEquals(attr, value) == Lower(attr) = Lower(value)

\* The loop of lines 189-195 from record i on, with the results so far.
RECURSIVE ExactLoop(_, _, _, _, _)
ExactLoop(recs, i, field, value, results) ==
    IF i > Len(recs) THEN [status |-> "ok", ret |-> results]
    ELSE LET a == GetAttr(recs[i], field)
         IN  IF ~a.has THEN [status |-> "ok", ret |-> results]
             ELSE IF ~a.str THEN [status |-> "AttributeError", ret |-> <<>>]
             ELSE ExactLoop(recs, i + 1, field, value,
                            IF FieldEquals(a.val, value)
                            THEN Append(results, recs[i]) ELSE results)

\* A scan that looks at the name fields only.
AnyFieldContains_NamesOnly(record, query) ==
    \E f \in NameFields : IsSubstring(Lower(query), Lower(asdict(record)[f]))

\* any(query.lower() in value.lower() for value in dataclasses.asdict(record).values())
AnyFieldContains(record, query) ==
    \E f \in FieldSet : IsSubstring(Lower(query), Lower(asdict(record)[f]))

\* The loop of lines 198-200.
RECURSIVE SubstringLoop(_, _, _, _)
SubstringLoop(recs, i, query, results) ==
    IF i > Len(recs) THEN results
    ELSE SubstringLoop(recs, i + 1, query,
                       IF AnyFieldContains(recs[i], query)
                       THEN Append(results, recs[i]) ELSE results)

\* search_records(query): `field, value = query.split("=")` raises ValueError unless
\* the split gives exactly two parts.
search_records(recs, query) ==
    IF Positions(Lower(query), "=") # {}
    THEN LET parts == Split(query, "=")
         IN  IF Len(parts) # 2 THEN [status |-> "ValueError", ret |-> <<>>]
             ELSE ExactLoop(recs, 1, parts[1], parts[2], <<>>)
    ELSE [status |-> "ok", ret |-> SubstringLoop(recs, 1, query, <<>>)]

(***************************************************************************)
(* display_records                                                         *)
(***************************************************************************)
\* records_to_display = records or self.records: None and [] are both falsy.
RecordsToDisplay(given, passed, own) ==
    IF given /\ passed # <<>> THEN passed ELSE own

\* current_page_records (lines 109-111)
CurrentPage(to_display, entries_per_page, page_number) ==
    LET start_index == (page_number - 1) * entries_per_page
        end_index == start_index + entries_per_page
    IN  PySlice(to_display, start_index, end_index)

\* display_records: the records printed; line 127 divides by entries_per_page.
display_records(given, passed, own, entries_per_page, page_number) ==
    LET to_display == RecordsToDisplay(given, passed, own)
    IN  [status |-> IF entries_per_page = 0 THEN "ZeroDivisionError" ELSE "ok",
         shown |-> CurrentPage(to_display, entries_per_page, page_number)]

(***************************************************************************)
(* add_record and edit_record                                              *)
(***************************************************************************)
\* An insert at the front instead of an append.
Appended_Front(recs, record) == <<record>> \o recs

\* self.records.append(record)
Appended(recs, record) == Append(recs, record)

\* A replacement that keeps the new value and loses the other fields.
SetAttr_DropsOthers(record, field, new_value) ==
    [f \in FieldSet |-> IF f = field THEN new_value ELSE <<>>]

\* setattr(record, selected_field, new_value): a pydantic dataclass without
\* validate_assignment assigns without running the field's validator.
SetAttr(record, field, new_value) == [record EXCEPT ![field] = new_value]

\* list(dataclasses.asdict(record).keys())[selected_field_index], as the 1-based
\* position in Fields; 0 stands for IndexError.
SelectedField(typed_number) == PyIndex(Len(Fields), typed_number - 1)

\* 0 <= index < len(self.records)
IndexInRange(index, recs) == 0 <= index /\ index < Len(recs)

(***************************************************************************)
(* Inputs of the model                                                     *)
(***************************************************************************)
\* More bounds: page numbers run over -MaxPage..MaxPage, page sizes over 0..MaxPerPage.
MaxPage == 3
MaxPerPage == 2

S_Ab == <<"A","b">>
S_aB == <<"a","B">>
S_cd == <<"c","d">>
S_Ab_cd == <<"A","b","-","c","d">>
S_1 == <<"1">>
Phone1 == <<"4","9","5","5","5","5","6","6","6","6">>
Phone2 == <<"9","1","6","-","6","6","6","-","7","7","7","7">>

Rec1 == [last_name |-> S_Ab, first_name |-> S_cd, middle_name |-> S_cd,
         organization |-> S_cd, work_phone |-> Phone1, personal_phone |-> Phone2]
Rec2 == [last_name |-> S_cd, first_name |-> S_aB, middle_name |-> S_cd,
         organization |-> S_Ab_cd, work_phone |-> Phone2, personal_phone |-> Phone1]
BadName == [Rec1 EXCEPT !.last_name = S_1]
BadPhone == [Rec2 EXCEPT !.personal_phone = S_cd]

\* What is typed at the six prompts of `add`.
AddInputs == {Rec1, Rec2, BadName, BadPhone}

\* What is typed as the new value in `edit`: a name and a phone number, each of
\* which fails the pattern of the other kind of field.
EditValues == {S_aB, Phone1}

\* What is typed as the field number in `edit`: an integer or something else.
TypedNumbers ==
    {[isInt |-> TRUE, n |-> k] : k \in -(Len(Fields) + 1)..(Len(Fields) + 1)}
        \cup {[isInt |-> FALSE, n |-> 0]}

\* Files another program may leave at file_path while no process runs.
ExternalFiles ==
    {Missing, NotJson, JsonFile(JNumber),
     JsonFile(JArray(<<JNumber>>)),
     JsonFile(JArray(<<JObject(Rec1), JNumber>>)),
     JsonFile(JArray(<<JObject(BadName), JNumber>>)),
     JsonFile(JArray(<<JObject(BadPhone)>>)),
     JsonFile(JArray(<<JObject(Rec1), JObject(BadName)>>)),
     JsonFile(JArray(<<JObject([f \in FieldSet \ {"organization"} |-> Rec1[f]])>>)),
     JsonFile(JArray(<<JObject(Rec2), JObject(Rec1)>>))}

Eq == <<"=">>
Queries ==
    {AttrText[f] \o Eq \o v : f \in {"last_name", "first_name"}, v \in {S_Ab, S_cd}}
        \cup {AttrText["work_phone"] \o Eq \o Phone1,
              SubSeq(AttrText["first_name"], 1, 9) \o Eq \o S_Ab,
              TextValidatePhone \o Eq \o S_Ab,
              TextModule \o Eq \o ModuleName,
              Eq \o S_Ab,
              AttrText["first_name"] \o Eq \o S_Ab \o Eq,
              AttrText["organization"] \o Eq \o S_Ab \o Eq \o S_cd,
              <<>>, <<"B">>, S_Ab, <<"6","-","7">>, <<"b","-","C">>, <<"z">>}

(***************************************************************************)
(* The process                                                             *)
(***************************************************************************)
Init ==
    /\ running = FALSE
    /\ records = <<>>
    /\ file = Missing
    /\ edits = 0
    /\ last = [op |-> "init"]

\* PhoneDirectory(): self.records = self.load_records().  An exception load_records
\* does not catch leaves no object.
Start ==
    /\ ~running
    /\ LET r == load_records(file)
       IN  /\ last' = [op |-> "load", preFile |-> file, status |-> r.status,
                       ret |-> r.ret]
           /\ running' = (r.status = "ok")
           /\ records' = r.ret
    /\ UNCHANGED <<file, edits>>

\* The process ends; its memory is gone.
Exit ==
    /\ running
    /\ running' = FALSE
    /\ records' = <<>>
    /\ last' = [op |-> "exit"]
    /\ UNCHANGED <<file, edits>>

\* Between two runs the file may be replaced from outside.
ExternalWrite ==
    /\ ~running
    /\ \E f \in ExternalFiles :
        /\ file' = f
        /\ last' = [op |-> "write"]
    /\ UNCHANGED <<running, records, edits>>

\* main's "add" (lines 232-245): Record(...) of the typed values, then add_record,
\* which appends and saves; a ValidationError is caught and reported.
Add ==
    /\ running
    /\ \E data \in AddInputs :
        IF RecordValid(data)
        THEN /\ Len(records) < MaxRecs
             /\ records' = Appended(records, data)
             /\ file' = save_records(records')
             /\ last' = [op |-> "add", data |-> data, pre |-> records,
                         preFile |-> file, status |-> "ok"]
             /\ UNCHANGED <<running, edits>>
        ELSE /\ last' = [op |-> "add", data |-> data, pre |-> records,
                         preFile |-> file, status |-> "ValidationError"]
             /\ UNCHANGED <<running, records, file, edits>>

\* edit_record(index) with what is typed at its two prompts: the field number is
\* asked only for an index in range, the new value only once a field is selected.
\* int() of a text that is no integer raises ValueError, which line 172 does not catch.
Edit ==
    /\ running
    /\ \E index \in -1..MaxRecs :
        LET call == [op |-> "edit", index |-> index, pre |-> records, preFile |-> file]
        IN  IF ~IndexInRange(index, records)
            THEN /\ last' = call @@ [status |-> "InvalidIndex"]
                 /\ UNCHANGED <<running, records, file, edits>>
            ELSE \E typed \in TypedNumbers :
                IF ~typed.isInt
                THEN /\ last' = call @@ [status |-> "ValueError", typed |-> typed]
                     /\ running' = FALSE
                     /\ records' = <<>>
                     /\ UNCHANGED <<file, edits>>
                ELSE IF SelectedField(typed.n) = 0
                THEN /\ last' = call @@ [status |-> "IndexError", typed |-> typed]
                     /\ UNCHANGED <<running, records, file, edits>>
                ELSE /\ edits < MaxEdits
                     /\ \E new_value \in EditValues :
                         LET selected_field == Fields[SelectedField(typed.n)]
                         IN  /\ records' =
                                    [records EXCEPT
                                       ![index + 1] = SetAttr(@, selected_field, new_value)]
                             /\ file' = save_records(records')
                             /\ last' = call @@ [status |-> "ok", typed |-> typed,
                                                 field |-> selected_field,
                                                 new_value |-> new_value]
                     /\ edits' = edits + 1
                     /\ UNCHANGED running

\* search_records(query); an exception it raises is caught nowhere.
Search ==
    /\ running
    /\ \E query \in Queries :
        LET r == search_records(records, query)
        IN  /\ last' = [op |-> "search", query |-> query, pre |-> records,
                        status |-> r.status, ret |-> r.ret]
            /\ running' = (r.status = "ok")
            /\ records' = IF r.status = "ok" THEN records ELSE <<>>
    /\ UNCHANGED <<file, edits>>

\* display_records(records, entries_per_page, page_number); `given` is FALSE when the
\* records argument is left at its default None.
Display ==
    /\ running
    /\ \E arg \in {[given |-> FALSE, passed |-> <<>>]}
                  \cup {[given |-> TRUE, passed |-> SubSeq(records, k, Len(records))] :
                          k \in 1..(Len(records) + 1)},
          entries_per_page \in 0..MaxPerPage, page_number \in -MaxPage..MaxPage :
        LET r == display_records(arg.given, arg.passed, records,
                                 entries_per_page, page_number)
        IN  /\ last' = [op |-> "display", given |-> arg.given, passed |-> arg.passed,
                        entries_per_page |-> entries_per_page,
                        page_number |-> page_number, pre |-> records,
                        status |-> r.status, shown |-> r.shown]
            /\ running' = (r.status = "ok")
            /\ records' = IF r.status = "ok" THEN records ELSE <<>>
    /\ UNCHANGED <<file, edits>>

\* The process with the operations that change the directory or the file.
Next == Start \/ Exit \/ ExternalWrite \/ Add \/ Edit

Spec == Init /\ [][Next]_vars

\* search_records and display_records read self.records and change nothing: they
\* are checked from every directory of up to MaxRecs records drawn from PoolRecords,
\* records as add leaves them and as an edit leaves them.
PoolRecords ==
    {Rec1, Rec2, SetAttr(Rec1, "first_name", S_aB), SetAttr(Rec2, "work_phone", S_aB)}
Directories == UNION {[1..n -> PoolRecords] : n \in 0..MaxRecs}

InitDirectory ==
    /\ running = TRUE
    /\ records \in Directories
    /\ file = save_records(records)
    /\ edits = 0
    /\ last = [op |-> "init"]

SpecSearch == InitDirectory /\ [][Search]_vars

SpecDisplay == InitDirectory /\ [][Display]_vars

(***************************************************************************)
(* main: one run of the command-line program                               *)
(***************************************************************************)
\* The defaults of display_records (line 99).
DefaultEntriesPerPage == 5
DefaultPageNumber == 1

\* The attributes parse_arguments gives the namespace of `display` (lines 207-209).
DisplayArgs == {"command", "page", "records_per_page"}

\* The outcome of a run that ended in an exception nothing catches.
Uncaught(command, exception) ==
    [op |-> "main", command |-> command, status |-> exception, uncaught |-> TRUE]
\* The outcome of a run that reached the end of main.
Completed(command, status) ==
    [op |-> "main", command |-> command, status |-> status, uncaught |-> FALSE]

\* `display --page N --records_per_page M`: line 231 reads args.entries_per_page.
MainDisplay ==
    /\ ~running
    /\ \E page \in -MaxPage..MaxPage, records_per_page \in 0..MaxPerPage :
        LET loaded == load_records(file)
        IN  last' = IF loaded.status # "ok"
                    THEN Uncaught("display", loaded.status)
                    ELSE IF "entries_per_page" \notin DisplayArgs
                    THEN Uncaught("display", "AttributeError")
                    ELSE LET r == display_records(FALSE, <<>>, loaded.ret,
                                                  records_per_page, page)
                         IN  IF r.status # "ok" THEN Uncaught("display", r.status)
                             ELSE Completed("display", "ok") @@ [shown |-> r.shown]
    /\ UNCHANGED <<running, records, file, edits>>

\* `add` with the six typed values (lines 232-245).
MainAdd ==
    /\ ~running
    /\ \E data \in AddInputs :
        LET loaded == load_records(file)
        IN  IF loaded.status # "ok"
            THEN /\ last' = Uncaught("add", loaded.status)
                 /\ UNCHANGED file
            ELSE IF ~RecordValid(data)
            THEN /\ last' = Completed("add", "ValidationError")
                 /\ UNCHANGED file
            ELSE /\ Len(loaded.ret) < MaxRecs
                 /\ file' = save_records(Appended(loaded.ret, data))
                 /\ last' = Completed("add", "ok")
    /\ UNCHANGED <<running, records, edits>>

\* `edit <index>` with what is typed at the prompts: edit_record(args.index - 1).
MainEdit ==
    /\ ~running
    /\ \E arg \in 0..(MaxRecs + 1) :
        LET loaded == load_records(file)
            index == arg - 1
        IN  IF loaded.status # "ok"
            THEN /\ last' = Uncaught("edit", loaded.status)
                 /\ UNCHANGED <<file, edits>>
            ELSE IF ~IndexInRange(index, loaded.ret)
            THEN /\ last' = Completed("edit", "InvalidIndex")
                 /\ UNCHANGED <<file, edits>>
            ELSE \E typed \in TypedNumbers :
                IF ~typed.isInt
                THEN /\ last' = Uncaught("edit", "ValueError")
                     /\ UNCHANGED <<file, edits>>
                ELSE IF SelectedField(typed.n) = 0
                THEN /\ last' = Completed("edit", "IndexError")
                     /\ UNCHANGED <<file, edits>>
                ELSE /\ edits < MaxEdits
                     /\ \E new_value \in EditValues :
                         file' = save_records(
                                    [loaded.ret EXCEPT
                                       ![index + 1] =
                                           SetAttr(@, Fields[SelectedField(typed.n)],
                                                   new_value)])
                     /\ last' = Completed("edit", "ok")
                     /\ edits' = edits + 1
    /\ UNCHANGED <<running, records>>

\* `search <query>` (lines 248-251): the results are displayed with the defaults when
\* there are any.
MainSearch ==
    /\ ~running
    /\ \E query \in Queries :
        LET loaded == load_records(file)
            found == search_records(loaded.ret, query)
        IN  last' = IF loaded.status # "ok"
                    THEN Uncaught("search", loaded.status)
                    ELSE IF found.status # "ok"
                    THEN Uncaught("search", found.status)
                    ELSE IF found.ret = <<>>
                    THEN Completed("search", "NoResults")
                    ELSE LET r == display_records(TRUE, found.ret, loaded.ret,
                                                  DefaultEntriesPerPage,
                                                  DefaultPageNumber)
                         IN  IF r.status # "ok" THEN Uncaught("search", r.status)
                             ELSE Completed("search", "ok") @@ [shown |-> r.shown]
    /\ UNCHANGED <<running, records, file, edits>>

\* Runs of the program, one after the other, on a file others may replace in between.
NextMain == ExternalWrite \/ MainDisplay \/ MainAdd \/ MainEdit \/ MainSearch

SpecMain == Init /\ [][NextMain]_vars

(***************************************************************************)
(* Record(...) on one field                                                *)
(***************************************************************************)
Phone3 == <<"+","(","4","9","5",")"," ","5","5","5",".","6","6","6","6","6","6">>

\* What may follow a value: nothing, or characters that are no part of it.
Trailers == {<<>>, <<"x">>, <<"1">>, <<" ">>, <<"-">>, <<"\n">>, <<"\n", "\n">>,
             <<"x", "\n">>}

\* Values given for a field: phone numbers and names, bare and with a trailer, a
\* name with a leading digit, and the empty string.
ValidationInputs ==
    {v \o t : v \in {Phone1, Phone2, Phone3, S_Ab, S_Ab_cd}, t \in Trailers}
        \cup {S_1 \o S_Ab, <<>>}

\* Record(...) with one field given the value and the others valid: pydantic runs
\* the field's validator and the construction succeeds or raises ValidationError.
Validate ==
    /\ \E f \in FieldSet, value \in ValidationInputs :
        last' = [op |-> "validate", field |-> f, value |-> value,
                 accepted |-> RecordValid([Rec1 EXCEPT ![f] = value])]
    /\ UNCHANGED <<running, records, file, edits>>

SpecValidate == Init /\ [][Validate]_vars

(***************************************************************************)
(* Properties                                                              *)
(***************************************************************************)
\* The field whose name is the text, if there is one.
IsFieldText(text) == \E f \in FieldSet : AttrText[f] = text
FieldOfText(text) == CHOOSE f \in FieldSet : AttrText[f] = text

\* The position of the first "=" of a query that has one.
FirstEq(query) ==
    CHOOSE k \in Positions(query, "=") : \A j \in Positions(query, "=") : k <= j
LeftOf(query) == SubSeq(query, 1, FirstEq(query) - 1)
RightOf(query) == SubSeq(query, FirstEq(query) + 1, Len(query))

\* The records whose field named by the text before the first "=" equals, lower-cased,
\* the text after it.
ExactMatches(recs, query) ==
    SelectSeq(recs,
              LAMBDA r : Lower(r[FieldOfText(LeftOf(query))]) = Lower(RightOf(query)))

\* Every item of the file is an object that is a valid record.
FileRecordsValid(f) ==
    /\ f.kind = "json"
    /\ f.value.t = "array"
    /\ \A i \in 1..Len(f.value.items) :
        /\ f.value.items[i].t = "object"
        /\ RecordValid(f.value.items[i].m)

\* C1: after any add_record or edit_record every record in memory and every record
\* written to the file has all six fields matching their pattern, and an edit with
\* a new value that fails the field's pattern is not saved.
C1_RecordsAlwaysValid ==
    /\ \A i \in 1..Len(records) : RecordValid(records[i])
    /\ (last.op \in {"add", "edit"} /\ last.status = "ok") => FileRecordsValid(file)
    /\ (last.op = "edit" /\ last.status = "ok")
          => FieldValid(last.field, last.new_value)

\* C2: a query with exactly one "=" and a field name on its left returns exactly the
\* records whose field equals the right part when both are lower-cased, in
\* directory order and with their multiplicity.
C2_ExactFieldSearch ==
    (/\ last.op = "search"
     /\ Cardinality(Positions(last.query, "=")) = 1
     /\ IsFieldText(LeftOf(last.query)))
        => /\ last.status = "ok"
           /\ last.ret = ExactMatches(last.pre, last.query)

\* A field search that kept some records and dropped others, one of the kept
\* differing from the query's value in case.
C2_Witness ==
    /\ last.op = "search"
    /\ Cardinality(Positions(last.query, "=")) = 1
    /\ IsFieldText(LeftOf(last.query))
    /\ 0 < Len(last.ret) /\ Len(last.ret) < Len(last.pre)
    /\ \E i \in 1..Len(last.ret) :
          last.ret[i][FieldOfText(LeftOf(last.query))] # RightOf(last.query)

\* C3: a query fieldName=value whose fieldName is none of the six field names
\* returns an empty sequence and does not fail.
C3_UnknownFieldEmpty ==
    (/\ last.op = "search"
     /\ Cardinality(Positions(last.query, "=")) = 1
     /\ ~IsFieldText(LeftOf(last.query)))
        => /\ last.status = "ok"
           /\ last.ret = <<>>

\* C4: a query without "=" returns exactly the records in which the lower-cased
\* query is a substring of the lower-cased value of at least one field, in
\* directory order.
C4_SubstringSearch ==
    (last.op = "search" /\ Positions(last.query, "=") = {})
        => /\ last.status = "ok"
           /\ last.ret =
                SelectSeq(last.pre,
                          LAMBDA r : \E f \in FieldSet :
                                        IsSubstring(Lower(last.query), Lower(r[f])))

\* A substring search with a query that is not lower-case already, which kept some
\* records and dropped others.
C4_Witness ==
    /\ last.op = "search"
    /\ Positions(last.query, "=") = {}
    /\ Lower(last.query) # last.query
    /\ 0 < Len(last.ret) /\ Len(last.ret) < Len(last.pre)

\* The file holds exactly the records recs, in order, as objects.
FileHolds(f, recs) ==
    /\ f.kind = "json"
    /\ f.value.t = "array"
    /\ Len(f.value.items) = Len(recs)
    /\ \A i \in 1..Len(recs) :
        /\ f.value.items[i].t = "object"
        /\ DOMAIN f.value.items[i].m = FieldSet
        /\ \A g \in FieldSet : f.value.items[i].m[g] = recs[i][g]

\* recs with field g of the record at 1-based position i replaced by v.
WithField(recs, i, g, v) ==
    [j \in 1..Len(recs) |->
        [h \in FieldSet |-> IF j = i /\ h = g THEN v ELSE recs[j][h]]]

\* C5: a successful edit_record(i) that selects field f changes only field f of the
\* record at position i, in memory and in the file written afterwards; a typed
\* number 1..6 selects the field at that position of the field list.
C5_EditChangesOneField ==
    (last.op = "edit" /\ last.status = "ok")
        => /\ records = WithField(last.pre, last.index + 1, last.field, last.new_value)
           /\ FileHolds(file, WithField(last.pre, last.index + 1, last.field,
                                        last.new_value))
           /\ last.typed.n \in 1..Len(Fields) => last.field = Fields[last.typed.n]

\* A successful edit, by a typed number 1..6, of one of two records, to a value the
\* field did not have.
C5_Witness ==
    /\ last.op = "edit" /\ last.status = "ok"
    /\ last.typed.n \in 1..Len(Fields)
    /\ Len(last.pre) = 2
    /\ last.pre[last.index + 1][last.field] # last.new_value
    /\ records # last.pre

\* C6: edit_record changes neither the directory nor the file when the record
\* index is out of range or the typed field number is an integer outside 1..6.
C6_EditNoOpWithoutTarget ==
    last.op = "edit" =>
        IF ~(0 <= last.index /\ last.index < Len(last.pre))
        THEN records = last.pre /\ file = last.preFile
        ELSE (last.typed.isInt /\ last.typed.n \notin 1..Len(Fields))
                => (records = last.pre /\ file = last.preFile)

\* C7: with a valid directory D in memory, add_record(r) of a valid record r leaves
\* D followed by r in memory, and loading the file afterwards gives the same directory.
C7_AddThenLoad ==
    (/\ last.op = "add" /\ last.status = "ok"
     /\ \A i \in 1..Len(last.pre) : RecordValid(last.pre[i]))
        => /\ records = last.pre \o <<last.data>>
           /\ load_records(file) = [status |-> "ok", ret |-> records]

\* An add of a record equal to one the valid directory already holds.
C7_Witness ==
    /\ last.op = "add" /\ last.status = "ok"
    /\ \A i \in 1..Len(last.pre) : RecordValid(last.pre[i])
    /\ \E i \in 1..Len(last.pre) : last.pre[i] = last.data
    /\ Len(records) = Len(last.pre) + 1

\* C8: load_records returns all the file's records in file order when the file
\* exists, parses and holds valid records only; it returns an empty directory
\* otherwise; and it never changes the file.
C8_LoadAllOrNothing ==
    last.op = "load" =>
        /\ last.status = "ok"
        /\ IF FileRecordsValid(last.preFile)
           THEN FileHolds(last.preFile, last.ret)
           ELSE last.ret = <<>>
        /\ file = last.preFile

\* The page of recs the page number and size name: positions
\* (p-1)*size .. (p-1)*size+size-1 (0-based) that exist, none for p < 1.
PageOf(recs, size, p) ==
    IF p < 1 THEN <<>>
    ELSE LET lo == (p - 1) * size + 1
             hi == IF p * size < Len(recs) THEN p * size ELSE Len(recs)
         IN  IF lo <= hi THEN SubSeq(recs, lo, hi) ELSE <<>>

\* C9: display_records shows exactly the page of the passed sequence (the empty
\* sequence included) for every page size >= 1 and every page number, and shows
\* nothing for a page number out of range, without an error.
C9_DisplayShowsPage ==
    (last.op = "display" /\ last.given /\ last.entries_per_page >= 1)
        => /\ last.status = "ok"
           /\ last.shown = PageOf(last.passed, last.entries_per_page, last.page_number)

\* C10: a query with two or more "=" is split at the first "=" only and then
\* searched as an exact field match on the text before it and the text after it.
C10_SplitAtFirstEq ==
    (last.op = "search" /\ Cardinality(Positions(last.query, "=")) >= 2)
        => /\ last.status = "ok"
           /\ last.ret = IF IsFieldText(LeftOf(last.query))
                         THEN ExactMatches(last.pre, last.query)
                         ELSE <<>>

\* C11: every CLI command, for any accepted argument values and any typed input,
\* runs to the end of main: no exception is left uncaught.
C11_NoUnhandledFailure ==
    last.op = "main" => ~last.uncaught

\* s from position i on starts with cnt digits.
DigitsAt(s, i, cnt) == \A k \in i..(i + cnt - 1) : k <= Len(s) /\ s[k] \in Digits

\* The whole of s is a phone number: optional "+", optional "(", 3 digits, optional
\* ")", optional separator, 3 digits, optional separator, 4 to 6 digits.
PhoneShape(s) ==
    \E plus \in 0..1, open \in 0..1, close \in 0..1, sep1 \in 0..1, sep2 \in 0..1,
       cnt \in 4..6 :
        LET area == plus + open + 1
            exch == area + 3 + close + sep1
            subs == exch + 3 + sep2
        IN  /\ Len(s) = subs + cnt - 1
            /\ plus = 1 => s[1] = "+"
            /\ open = 1 => s[plus + 1] = "("
            /\ DigitsAt(s, area, 3)
            /\ close = 1 => s[area + 3] = ")"
            /\ sep1 = 1 => s[area + 3 + close] \in {"-", ".", " ", "\n", "\t"}
            /\ DigitsAt(s, exch, 3)
            /\ sep2 = 1 => s[exch + 3] \in {"-", ".", " ", "\n", "\t"}
            /\ DigitsAt(s, subs, cnt)

\* The whole of s is a name: one or more letters and spaces, optionally followed by
\* a hyphen and a second such run.
NameShape(s) ==
    LET Run(a, b) ==
            /\ a <= b
            /\ \A k \in a..b : s[k] \in LowerLetters \cup UpperLetters \cup Whitespace
    IN  \/ Run(1, Len(s))
        \/ \E h \in 1..Len(s) : s[h] = "-" /\ Run(1, h - 1) /\ Run(h + 1, Len(s))

\* A proper prefix of s is a whole phone number.
PhoneThenMore(s) == \E k \in 1..(Len(s) - 1) : PhoneShape(SubSeq(s, 1, k))

\* C12 as stated: a phone field accepts a valid phone number followed by extra
\* trailing characters, and a name field accepts exactly the strings that match the
\* name pattern as a whole.
C12_PhoneStartAnchoredOnly ==
    last.op = "validate" =>
        /\ (last.field \in {"work_phone", "personal_phone"} /\ PhoneThenMore(last.value))
              => last.accepted
        /\ last.field \notin {"work_phone", "personal_phone"}
              => (last.accepted <=> NameShape(last.value))

\* C12 as amended: a phone field accepts exactly the strings that are a phone number
\* as a whole, or such a string followed by one final newline; a name field accepts
\* exactly the strings that match the name pattern as a whole.
C12_BothPatternsAnchored ==
    last.op = "validate" =>
        /\ last.field \in {"work_phone", "personal_phone"}
              => (last.accepted <=>
                    \/ PhoneShape(last.value)
                    \/ /\ Len(last.value) > 0
                       /\ last.value[Len(last.value)] = "\n"
                       /\ PhoneShape(SubSeq(last.value, 1, Len(last.value) - 1)))
        /\ last.field \notin {"work_phone", "personal_phone"}
              => (last.accepted <=> NameShape(last.value))

\* A phone field given a valid phone number followed by a character that is no
\* newline, and rejected.
C12_Witness ==
    /\ last.op = "validate"
    /\ last.field \in {"work_phone", "personal_phone"}
    /\ PhoneThenMore(last.value)
    /\ last.value[Len(last.value)] # "\n"
    /\ ~last.accepted

====
